---- MODULE Spec2Model ----
(***************************************************************************)
(* Model of the NASA ADS MCP server (src/src/nasa_ads_mcp/server.py): the  *)
(* tool catalog (list_tools), the router (call_tool), the ten handlers and *)
(* the outbound calls they issue to the ADS backend.                       *)
(*                                                                         *)
(* A handler is a coroutine that is deterministic in its parameters and in *)
(* the answers the backend has given so far.  It is modelled as an         *)
(* operator of (parameters, answers) that yields the next thing it does:   *)
(* issue an outbound call, return an envelope, or raise.                   *)
(***************************************************************************)
EXTENDS Integers, Sequences, FiniteSets, TLC

\* ------------------------------------------------------------------ bounds
\* Number of request tasks the server framework may have spawned at once.
MaxTasks == 2
\* Longest bibcode list a caller passes (export_bibtex, get_paper_metrics, add_to_library).
MaxBibcodes == 2
\* Longest list of records / documents / libraries the backend answers with.
MaxRecords == 2

Tasks == 1..MaxTasks

\* --------------------------------------------------------- input domains
BibcodePool == <<"2019ApJ...878...98S", "BOGUS", "2020MNRAS.491.2025C", "2021A&A...650A..10X">>
WhitespaceBibcode == " "

RECURSIVE SeqsUpTo(_, _)
SeqsUpTo(S, n) ==
    IF n = 0 THEN {<<>>}
    ELSE LET shorter == SeqsUpTo(S, n - 1)
         IN  shorter \cup {Append(s, x) : s \in {r \in shorter : Len(r) = n - 1}, x \in S}

\* Bibcode lists a caller may pass: entries that resolve, that do not, and a blank one.
BibcodeLists == SeqsUpTo({BibcodePool[1], BibcodePool[2], WhitespaceBibcode}, MaxBibcodes)

\* What the backend lists: the first n entries of the pool.
Prefix(n) == SubSeq(BibcodePool, 1, IF n < Len(BibcodePool) THEN n ELSE Len(BibcodePool))
BackendLists == {Prefix(n) : n \in 0..MaxRecords}

\* An optional argument: <<>> when the key is absent from the mapping, <<v>> when present.
Opt(S) == {<<>>} \cup {<<v>> : v \in S}
Has(o) == o # <<>>
Val(o) == o[1]

Queries == {"stellar populations"}
Authors == {"Coelho, P."}
LibraryIds == {"lib-1"}
LibraryNames == {"Stellar Populations Review"}
MaxResultsValues == {3, 50, 51, 100, 101, 1000}
SortValues == {"date", "citation_count", "relevance", "newest"}
YearRanges == {"2020-2025"}

\* ------------------------------------------------------------ the catalog
DefaultMaxResultsSearchDoc == 10
DefaultMaxResultsAuthorDoc == 20

\* list_tools(): the ten Tool entries, with the parts of each inputSchema that the
\* router and the handlers depend on.
list_tools ==
    << [name |-> "search_papers", required |-> {"query"},
        sort_enum |-> {"date", "citation_count", "relevance"},
        sort_default |-> <<"date">>, max_results_default |-> <<DefaultMaxResultsSearchDoc>>],
       [name |-> "get_paper_details", required |-> {"bibcode"},
        sort_enum |-> {}, sort_default |-> <<>>, max_results_default |-> <<>>],
       [name |-> "get_author_papers", required |-> {"author"},
        sort_enum |-> {"date", "citation_count"},
        sort_default |-> <<"date">>, max_results_default |-> <<DefaultMaxResultsAuthorDoc>>],
       [name |-> "export_bibtex", required |-> {"bibcodes"},
        sort_enum |-> {}, sort_default |-> <<>>, max_results_default |-> <<>>],
       [name |-> "get_paper_metrics", required |-> {"bibcodes"},
        sort_enum |-> {}, sort_default |-> <<>>, max_results_default |-> <<>>],
       [name |-> "get_author_metrics", required |-> {"author"},
        sort_enum |-> {}, sort_default |-> <<>>, max_results_default |-> <<>>],
       [name |-> "list_libraries", required |-> {},
        sort_enum |-> {}, sort_default |-> <<>>, max_results_default |-> <<>>],
       [name |-> "get_library_papers", required |-> {"library_id"},
        sort_enum |-> {}, sort_default |-> <<>>, max_results_default |-> <<>>],
       [name |-> "create_library", required |-> {"name"},
        sort_enum |-> {}, sort_default |-> <<>>, max_results_default |-> <<>>],
       [name |-> "add_to_library", required |-> {"library_id", "bibcodes"},
        sort_enum |-> {}, sort_default |-> <<>>, max_results_default |-> <<>>] >>

CatalogNames == {list_tools[i].name : i \in 1..Len(list_tools)}
Tool(name) == list_tools[CHOOSE i \in 1..Len(list_tools) : list_tools[i].name = name]

UnknownNames == {"delete_library"}

\* The argument mappings a caller may send for an operation: every key of the
\* operation's schema present or absent, independently.
Arguments(name) ==
    CASE name = "search_papers" ->
           [query : Opt(Queries), max_results : Opt(MaxResultsValues), sort : Opt(SortValues)]
      [] name = "get_paper_details" -> [bibcode : Opt({BibcodePool[1], BibcodePool[2]})]
      [] name = "get_author_papers" ->
           [author : Opt(Authors), max_results : Opt(MaxResultsValues), sort : Opt(SortValues)]
      [] name = "export_bibtex" -> [bibcodes : Opt(BibcodeLists)]
      [] name = "get_paper_metrics" -> [bibcodes : Opt(BibcodeLists)]
      [] name = "get_author_metrics" -> [author : Opt(Authors), years : Opt(YearRanges)]
      [] name = "list_libraries" -> [query : Opt(Queries)]
      [] name = "get_library_papers" -> [library_id : Opt(LibraryIds)]
      [] name = "create_library" ->
           [name : Opt(LibraryNames), description : Opt({"to read"}), public : Opt({TRUE})]
      [] name = "add_to_library" -> [library_id : Opt(LibraryIds), bibcodes : Opt(BibcodeLists)]
      [] OTHER -> [query : Opt(Queries), bibcode : Opt({BibcodePool[1]})]

\* ------------------------------------------------- outbound calls, answers
\* An outbound call.  api is the library entry point the handler uses, query the
\* search expression as its tokens, payload the bibcode list of a request body,
\* rows / sort / timeout the keyword arguments when the code passes them.
OutCall(api, target, query, rows, sort, payload, timeout) ==
    [api |-> api, target |-> target, query |-> query, rows |-> rows, sort |-> sort,
     payload |-> payload, timeout |-> timeout]

RequestTimeout == 30

SearchQuery(query, rows, sort) ==
    OutCall("ads.SearchQuery", <<"search/query">>, query, rows, sort, <<>>, <<>>)
RequestsPost(target, payload) ==
    OutCall("requests.post", target, <<>>, <<>>, <<>>, payload, <<RequestTimeout>>)
RequestsGet(target) ==
    OutCall("requests.get", target, <<>>, <<>>, <<>>, <<>>, <<RequestTimeout>>)

\* What the backend (or the network) does with a call.
\*   kind "raise":        the library call raises exc (no response object);
\*   kind "status_error": a response with a non-success status;
\*   kind "ok":           a success response; body is "ok" (decodes to the documented
\*                        shape), "badtype" (decodes, but a field has another type) or
\*                        "undecodable"; sections are the keys of a metrics body,
\*                        items the bibcodes / documents / libraries listed.
Answer(kind, exc, body, sections, items) ==
    [kind |-> kind, exc |-> exc, body |-> body, sections |-> sections, items |-> items]

MetricsSections == {"citation stats", "indicators"}

AnswersFor(call) ==
    IF call.api = "ads.SearchQuery"
    THEN {Answer("raise", e, "", {}, <<>>) : e \in {"APIResponseError", "ConnectionError"}}
         \cup {Answer("ok", "", "ok", {}, items) : items \in BackendLists}
    ELSE {Answer("raise", e, "", {}, <<>>) : e \in {"Timeout", "ConnectionError"}}
         \cup {Answer("status_error", "", "", {}, <<>>)}
         \cup (IF call.target = <<"/metrics">>
               THEN {Answer("ok", "", "ok", s, <<>>) : s \in SUBSET MetricsSections}
                    \cup {Answer("ok", "", b, MetricsSections, <<>>) : b \in {"badtype", "undecodable"}}
               ELSE IF call.target[1] = "/biblib/documents/"
               THEN {Answer("ok", "", "ok", {}, <<>>)}
               ELSE {Answer("ok", "", "ok", {}, items) : items \in BackendLists}
                    \cup {Answer("ok", "", b, {}, <<>>) : b \in {"badtype", "undecodable"}})

\* The exception classes of requests.exceptions (all derive from RequestException;
\* JSONDecodeError does so since requests 2.27).
IsRequestException(exc) ==
    exc \in {"Timeout", "ConnectionError", "HTTPError", "JSONDecodeError"}

\* The exception, if any, that reading an HTTP answer raises inside a handler:
\* the call itself, response.raise_for_status(), response.json(), or the first use
\* of a field of another type while formatting ("" when nothing is raised).
HttpFailureNoStatusCheck(a) ==
    IF a.kind = "raise" THEN a.exc
    ELSE IF a.kind = "status_error" THEN ""
    ELSE IF a.body = "undecodable" THEN "JSONDecodeError"
    ELSE IF a.body = "badtype" THEN "TypeError"
    ELSE ""
HttpFailure(a) ==
    IF a.kind = "raise" THEN a.exc
    ELSE IF a.kind = "status_error" THEN "HTTPError"
    ELSE IF a.body = "undecodable" THEN "JSONDecodeError"
    ELSE IF a.body = "badtype" THEN "TypeError"
    ELSE ""

\* ------------------------------------------------------- handler outcomes
NoCall == OutCall("", <<>>, <<>>, <<>>, <<>>, <<>>, <<>>)

\* The handler issues an outbound call and waits for its answer.
DoCall(call) == [kind |-> "call", call |-> call, exc |-> "", content |-> <<>>]
\* The handler returns [TextContent(type="text", text=...)].
Text(head, arg, entries) == [head |-> head, arg |-> arg, entries |-> entries]
Return(text) ==
    [kind |-> "return", call |-> NoCall, exc |-> "",
     content |-> << [type |-> "text", text |-> text] >>]
\* An exception leaves the function.
Raise(exc) == [kind |-> "raise", call |-> NoCall, exc |-> exc, content |-> <<>>]

\* The except clause of each handler: get_paper_metrics catches
\* requests.exceptions.RequestException, every other handler catches Exception.
CaughtRequestExceptionOnly(handler, exc) == IsRequestException(exc)
Caught(handler, exc) ==
    IF handler = "get_paper_metrics" THEN IsRequestException(exc) ELSE TRUE

\* except ... as e: return [TextContent(type="text", text=f"<head>{str(e)}")]
Except(handler, exc, head) ==
    IF Caught(handler, exc) THEN Return(Text(head, exc, <<>>)) ELSE Raise(exc)

Min(a, b) == IF a < b THEN a ELSE b

Entries(tag, items) == [i \in 1..Len(items) |-> <<tag, items[i]>>]

\* sep.join(items), as the sequence of its pieces.
JoinWithoutSeparator(sep, items) == items
RECURSIVE Join(_, _)
Join(sep, items) ==
    IF Len(items) <= 1 THEN items
    ELSE <<items[1], sep>> \o Join(sep, Tail(items))

\* --------------------------------------------------------------- handlers
SearchMaxRows == 50
AuthorMaxRows == 100
AuthorMetricsRows == 2000

sort_map ==
    [date |-> "date desc", citation_count |-> "citation_count desc", relevance |-> "score desc"]

\* sort_map.get(sort, "date desc")
search_sort(sort) == IF sort \in DOMAIN sort_map THEN sort_map[sort] ELSE "date desc"

\* rows=min(max_results, 50)
search_rows_unclamped(max_results) == max_results
search_rows(max_results) == Min(max_results, SearchMaxRows)

search_papers(query, max_results, sort, answers) ==
    IF answers = <<>>
    THEN DoCall(SearchQuery(<<"q", query>>, <<search_rows(max_results)>>, <<search_sort(sort)>>))
    ELSE LET papers == answers[1]
         IN  IF papers.kind = "raise"
             THEN Except("search_papers", papers.exc, "Error searching papers: ")
             ELSE IF papers.items = <<>>
             THEN Return(Text("No papers found for query: ", query, <<>>))
             ELSE Return(Text("Found papers for ", query, Entries("paper", papers.items)))

get_paper_details(bibcode, answers) ==
    IF answers = <<>>
    THEN DoCall(SearchQuery(<<"bibcode", bibcode>>, <<>>, <<>>))
    ELSE LET papers == answers[1]
         IN  IF papers.kind = "raise"
             THEN Except("get_paper_details", papers.exc, "Error getting paper details: ")
             ELSE IF papers.items = <<>>
             THEN Return(Text("Paper not found: ", bibcode, <<>>))
             ELSE Return(Text("Title: ", bibcode, Entries("paper", <<papers.items[1]>>)))

\* sort_param = "date desc" if sort == "date" else "citation_count desc"
author_sort(sort) == IF sort = "date" THEN "date desc" ELSE "citation_count desc"

\* rows=min(max_results, 100)
author_rows(max_results) == Min(max_results, AuthorMaxRows)

get_author_papers(author, max_results, sort, answers) ==
    IF answers = <<>>
    THEN DoCall(SearchQuery(<<"author", author>>, <<author_rows(max_results)>>, <<author_sort(sort)>>))
    ELSE LET papers == answers[1]
         IN  IF papers.kind = "raise"
             THEN Except("get_author_papers", papers.exc, "Error getting author papers: ")
             ELSE IF papers.items = <<>>
             THEN Return(Text("No papers found for author: ", author, <<>>))
             ELSE Return(Text("Found papers by ", author, Entries("paper", papers.items)))

\* One lookup of the export loop: the exception it raises into the handler's try
\* block ("" when none).  An empty result is not a failure: the loop tests
\* `if not papers` before it reads papers[0].
export_lookup_unguarded(papers) ==
    IF papers.kind = "raise" THEN papers.exc
    ELSE IF papers.items = <<>> THEN "IndexError" ELSE ""
export_lookup_failure(papers) == IF papers.kind = "raise" THEN papers.exc ELSE ""

\* The entry the loop appends for one bibcode.
bibtex_entry(bibcode, papers) ==
    IF papers.items = <<>> THEN <<"% Paper not found: ", bibcode>> ELSE <<"@ARTICLE", bibcode>>

export_bibtex(bibcodes, answers) ==
    LET n == Len(answers)
    IN  IF n > 0 /\ export_lookup_failure(answers[n]) # ""
        THEN Except("export_bibtex", export_lookup_failure(answers[n]), "Error exporting BibTeX: ")
        ELSE IF n < Len(bibcodes)
        THEN DoCall(SearchQuery(<<"bibcode", bibcodes[n + 1]>>, <<>>, <<>>))
        ELSE LET bibtex_entries == [i \in 1..n |-> bibtex_entry(bibcodes[i], answers[i])]
             IN  IF bibtex_entries = <<>>
                 THEN Return(Text("No valid bibcodes provided", "", <<>>))
                 ELSE Return(Text("BibTeX Citations:", "", bibtex_entries))

\* The sections a metrics text renders, in order.
paper_metrics_lines(data) ==
    <<<<"Paper Metrics:", "">>>>
    \o (IF "indicators" \in data.sections THEN <<<<"Indicators:", "">>>> ELSE <<>>)

get_paper_metrics(bibcodes, answers) ==
    IF answers = <<>>
    THEN DoCall(RequestsPost(<<"/metrics">>, bibcodes))
    ELSE LET response == answers[1]
         IN  IF HttpFailure(response) # ""
             THEN Except("get_paper_metrics", HttpFailure(response), "Error getting paper metrics: ")
             ELSE IF "citation stats" \in response.sections
             THEN Return(Text("Paper Metrics:", "", paper_metrics_lines(response)))
             ELSE Return(Text("No metrics available for these papers", "", <<>>))

author_metrics_lines(data) ==
    (IF "citation stats" \in data.sections THEN <<<<"Citation Statistics:", "">>>> ELSE <<>>)
    \o (IF "indicators" \in data.sections THEN <<<<"Impact Indicators:", "">>>> ELSE <<>>)
    \o (IF "citation stats" \in data.sections THEN <<<<"Read Statistics:", "">>>> ELSE <<>>)

\* if not bibcodes: return "No papers found for author"
author_has_no_papers_unchecked(bibcodes) == FALSE
author_has_no_papers(bibcodes) == bibcodes = <<>>

\* payload = {"bibcodes": bibcodes}
author_metrics_payload(bibcodes) == bibcodes

get_author_metrics(author, years, answers) ==
    LET query == <<"author:", author>> \o (IF Has(years) THEN <<"year:", Val(years)>> ELSE <<>>)
    IN  IF answers = <<>>
        THEN DoCall(SearchQuery(<<"q">> \o query, <<AuthorMetricsRows>>, <<>>))
        ELSE IF answers[1].kind = "raise"
        THEN Except("get_author_metrics", answers[1].exc, "Error getting author metrics: ")
        ELSE LET bibcodes == answers[1].items
             IN  IF author_has_no_papers(bibcodes)
                 THEN Return(Text("No papers found for author: ", author, <<>>))
                 ELSE IF Len(answers) = 1
                 THEN DoCall(RequestsPost(<<"/metrics">>, author_metrics_payload(bibcodes)))
                 ELSE IF HttpFailure(answers[2]) # ""
                 THEN Except("get_author_metrics", HttpFailure(answers[2]),
                             "Error getting author metrics: ")
                 ELSE Return(Text("Author Metrics for ", author, author_metrics_lines(answers[2])))

list_libraries(answers) ==
    IF answers = <<>>
    THEN DoCall(RequestsGet(<<"/biblib/libraries">>))
    ELSE LET response == answers[1]
         IN  IF HttpFailure(response) # ""
             THEN Except("list_libraries", HttpFailure(response), "Error listing libraries: ")
             ELSE IF response.items = <<>>
             THEN Return(Text("No libraries found. Create one with the create_library tool!",
                              "", <<>>))
             ELSE Return(Text("Your ADS Libraries:", "", Entries("library", response.items)))

get_library_papers(library_id, answers) ==
    IF answers = <<>>
    THEN DoCall(RequestsGet(<<"/biblib/libraries/", library_id>>))
    ELSE IF HttpFailure(answers[1]) # ""
    THEN Except("get_library_papers", HttpFailure(answers[1]), "Error getting library papers: ")
    ELSE LET bibcodes == answers[1].items
         IN  IF bibcodes = <<>>
             THEN Return(Text("No papers in library ", library_id, <<>>))
             ELSE IF Len(answers) = 1
             THEN DoCall(SearchQuery(<<"q", "bibcode:">> \o Join("OR", bibcodes),
                                     <<Len(bibcodes)>>, <<>>))
             ELSE IF answers[2].kind = "raise"
             THEN Except("get_library_papers", answers[2].exc, "Error getting library papers: ")
             ELSE Return(Text("Papers in library ", library_id,
                              Entries("paper", answers[2].items)))

create_library(name, description, public, answers) ==
    IF answers = <<>>
    THEN DoCall(RequestsPost(<<"/biblib/libraries">>, <<>>))
    ELSE LET response == answers[1]
         IN  IF HttpFailure(response) # ""
             THEN Except("create_library", HttpFailure(response), "Error creating library: ")
             ELSE Return(Text("Created library ", name, <<>>))

add_to_library(library_id, bibcodes, answers) ==
    IF answers = <<>>
    THEN DoCall(RequestsPost(<<"/biblib/documents/", library_id>>, bibcodes))
    ELSE LET response == answers[1]
         IN  IF response.kind = "raise"
             THEN Except("add_to_library", response.exc, "Error adding to library: ")
             ELSE IF response.kind = "status_error"
             THEN Except("add_to_library", "HTTPError", "Error adding to library: ")
             ELSE Return(Text("Added paper(s) to library ", library_id,
                              Entries("added", bibcodes)))

\* ----------------------------------------------------------------- router
\* arguments.get(key, default)
Get(o, default) == IF Has(o) THEN Val(o) ELSE default

DefaultMaxResultsSearch == 10
DefaultMaxResultsAuthor == 20

\* arguments.get("sort", "date") of the search_papers branch
search_default_sort_relevance == "relevance"
search_default_sort == "date"
\* arguments.get("sort", "date") of the get_author_papers branch
author_default_sort == "date"

\* elif name == "add_to_library": the name the last branch of the router tests for
add_to_library_branch_typo == "add_library"
add_to_library_branch == "add_to_library"

\* call_tool(name, arguments), resumed with the answers its handler has received so
\* far.  arguments[key] of an absent key raises KeyError before the handler is
\* entered; a name that matches no branch raises ValueError.
call_tool(name, arguments, answers) ==
    CASE name = "search_papers" ->
           IF ~Has(arguments.query) THEN Raise("KeyError")
           ELSE search_papers(Val(arguments.query),
                              Get(arguments.max_results, DefaultMaxResultsSearch),
                              Get(arguments.sort, search_default_sort), answers)
      [] name = "get_paper_details" ->
           IF ~Has(arguments.bibcode) THEN Raise("KeyError")
           ELSE get_paper_details(Val(arguments.bibcode), answers)
      [] name = "get_author_papers" ->
           IF ~Has(arguments.author) THEN Raise("KeyError")
           ELSE get_author_papers(Val(arguments.author),
                                  Get(arguments.max_results, DefaultMaxResultsAuthor),
                                  Get(arguments.sort, author_default_sort), answers)
      [] name = "export_bibtex" ->
           IF ~Has(arguments.bibcodes) THEN Raise("KeyError")
           ELSE export_bibtex(Val(arguments.bibcodes), answers)
      [] name = "get_paper_metrics" ->
           IF ~Has(arguments.bibcodes) THEN Raise("KeyError")
           ELSE get_paper_metrics(Val(arguments.bibcodes), answers)
      [] name = "get_author_metrics" ->
           IF ~Has(arguments.author) THEN Raise("KeyError")
           ELSE get_author_metrics(Val(arguments.author), arguments.years, answers)
      [] name = "list_libraries" -> list_libraries(answers)
      [] name = "get_library_papers" ->
           IF ~Has(arguments.library_id) THEN Raise("KeyError")
           ELSE get_library_papers(Val(arguments.library_id), answers)
      [] name = "create_library" ->
           IF ~Has(arguments.name) THEN Raise("KeyError")
           ELSE create_library(Val(arguments.name), Get(arguments.description, ""),
                               Get(arguments.public, FALSE), answers)
      [] name = add_to_library_branch ->
           IF ~Has(arguments.library_id) \/ ~Has(arguments.bibcodes) THEN Raise("KeyError")
           ELSE add_to_library(Val(arguments.library_id), Val(arguments.bibcodes), answers)
      [] OTHER -> Raise("ValueError")

\* ------------------------------------------------------------------ state
VARIABLES
    pc,        \* pc[t]: "free", "pending" (a request was read for task t) or "handling"
    req,       \* req[t]: the CallRequest task t is handling
    calls,     \* calls[t]: the outbound calls issued for that request, in order
    answers,   \* answers[t]: the answers received; one call is in flight when shorter
    loop,      \* the task that holds the event-loop thread, 0 when none does
    response,  \* what call_tool handed back for the request completed last, until
               \* the transport has taken it.  No handler reads it, so the order of
               \* Respond and the next CallTool is immaterial to the handlers; the
               \* model takes the response first.
    listed     \* what list_tools returned to the last introspection request

vars == <<pc, req, calls, answers, loop, response, listed>>

NoRequest == [name |-> "", arguments |-> [query |-> <<>>]]
NoResponse ==
    [kind |-> "none", exc |-> "", content |-> <<>>, name |-> "",
     arguments |-> [query |-> <<>>], calls |-> <<>>, answers |-> <<>>]

InFlight(t) == pc[t] = "handling" /\ Len(calls[t]) = Len(answers[t]) + 1

\* Whether the handler gives the event loop back while an outbound call is pending.
\* ads.SearchQuery and requests.get / requests.post are blocking calls made from
\* inside the coroutine: nothing is awaited, so the task keeps the thread.
SuspendsAtCall(call) == TRUE
Suspends(call) == FALSE

Init ==
    /\ pc = [t \in Tasks |-> "free"]
    /\ req = [t \in Tasks |-> NoRequest]
    /\ calls = [t \in Tasks |-> <<>>]
    /\ answers = [t \in Tasks |-> <<>>]
    /\ loop = 0
    /\ response = NoResponse
    /\ listed = <<>>

\* The outcome of running task t's coroutine from its current position with the
\* answers `got`: it issues its next call, or it ends and the response is recorded.
Run(t, r, got) ==
    LET step == call_tool(r.name, r.arguments, got)
    IN  /\ UNCHANGED listed
        /\ IF step.kind = "call"
           THEN /\ pc' = [pc EXCEPT ![t] = "handling"]
                /\ req' = [req EXCEPT ![t] = r]
                /\ calls' = [calls EXCEPT ![t] = Append(@, step.call)]
                /\ answers' = [answers EXCEPT ![t] = got]
                /\ loop' = IF Suspends(step.call) THEN 0 ELSE t
                /\ UNCHANGED response
           ELSE /\ pc' = [pc EXCEPT ![t] = "free"]
                /\ req' = [req EXCEPT ![t] = NoRequest]
                /\ calls' = [calls EXCEPT ![t] = <<>>]
                /\ answers' = [answers EXCEPT ![t] = <<>>]
                /\ loop' = 0
                /\ response' = [kind |-> step.kind, exc |-> step.exc,
                                content |-> step.content,
                                name |-> r.name, arguments |-> r.arguments,
                                calls |-> calls[t], answers |-> got]

\* The transport delivers a request and the framework creates a task for it.
Receive(t) ==
    /\ pc[t] = "free"
    /\ pc' = [pc EXCEPT ![t] = "pending"]
    /\ UNCHANGED <<req, calls, answers, loop, response, listed>>

\* The event loop runs a pending task: call_tool is entered and runs up to its first
\* outbound call, or to its end.
CallTool(t) ==
    /\ pc[t] = "pending"
    /\ loop = 0
    /\ response.kind = "none"
    /\ \E name \in CatalogNames \cup UnknownNames :
         \E arguments \in Arguments(name) :
           Run(t, [name |-> name, arguments |-> arguments], <<>>)

\* The call in flight is answered and the handler goes on from there.
Resume(t) ==
    /\ InFlight(t)
    /\ loop \in {0, t}
    /\ \E a \in AnswersFor(calls[t][Len(calls[t])]) :
         Run(t, req[t], Append(answers[t], a))

\* The framework writes the completed call's result (or error) to the stream.
Respond ==
    /\ response.kind # "none"
    /\ response' = NoResponse
    /\ UNCHANGED <<pc, req, calls, answers, loop, listed>>

\* An introspection request: the event loop runs list_tools, which awaits nothing
\* and returns the catalog.
ListTools ==
    /\ loop = 0
    /\ listed' = list_tools
    /\ UNCHANGED <<pc, req, calls, answers, loop, response>>

Next == (\E t \in Tasks : Receive(t) \/ CallTool(t) \/ Resume(t)) \/ Respond \/ ListTools

Spec == Init /\ [][Next]_vars

\* ----------------------------------------------------- reading the state
Done == response.kind # "none"

\* The request's argument mapping holds every field its catalog entry requires.
RequiredGiven(name, arguments) == \A k \in Tool(name).required : Has(arguments[k])

ErrorHeads ==
    {"Error searching papers: ", "Error getting paper details: ",
     "Error getting author papers: ", "Error exporting BibTeX: ",
     "Error getting paper metrics: ", "Error getting author metrics: ",
     "Error listing libraries: ", "Error getting library papers: ",
     "Error creating library: ", "Error adding to library: "}

\* A response that is a list of exactly one text block.
SingleText(r) == r.kind = "return" /\ Len(r.content) = 1 /\ r.content[1].type = "text"
ErrorEnvelope(r) == SingleText(r) /\ r.content[1].text.head \in ErrorHeads

\* An answer the backend gives when it works as documented or fails as a transport
\* does: records, no records, a raised network / API error, a non-success status.
Documented(a) == a.kind \in {"raise", "status_error"} \/ a.body = "ok"
Failed(a) == a.kind \in {"raise", "status_error"} \/ a.body # "ok"

\* ------------------------------------------------------------------ claims

\* C1: a call_tool invocation whose name is none of the ten catalog names ends in an
\* error envelope (one text block describing the error), with no outbound call; no
\* exception leaves call_tool.
C1_UnknownNameYieldsErrorEnvelope ==
    (Done /\ response.name \notin CatalogNames)
        => (ErrorEnvelope(response) /\ response.calls = <<>>)

\* C2: for a catalog operation called with its required fields, every failure met
\* while the request is handled ends in a single-text-block error envelope; no
\* exception crosses the dispatcher boundary.
C2_NoExceptionCrossesDispatcher ==
    (Done /\ response.name \in CatalogNames
          /\ RequiredGiven(response.name, response.arguments))
        => /\ response.kind = "return"
           /\ (\E i \in 1..Len(response.answers) : Failed(response.answers[i]))
                 => ErrorEnvelope(response)

\* C3: a call that lacks a required field ends in an error-text envelope and issues
\* no outbound call.
C3_MissingRequiredFieldYieldsErrorEnvelope ==
    (Done /\ response.name \in CatalogNames
          /\ ~RequiredGiven(response.name, response.arguments))
        => (ErrorEnvelope(response) /\ response.calls = <<>>)

\* C4: a request that names a catalog operation and supplies its required fields
\* ends, whatever the backend answered (records, no records or a transport failure),
\* in a returned envelope that holds at least one content block.
C4_ValidRequestYieldsEnvelope ==
    (Done /\ response.name \in CatalogNames
          /\ RequiredGiven(response.name, response.arguments)
          /\ \A i \in 1..Len(response.answers) : Documented(response.answers[i]))
        => (response.kind = "return" /\ Len(response.content) >= 1)

\* C4 witness: get_library_papers whose second call met a transport failure has
\* returned its envelope.
C4_Witness ==
    /\ response.name = "get_library_papers"
    /\ Len(response.answers) = 2
    /\ response.answers[2].kind = "raise"
    /\ response.kind = "return"
    /\ Len(response.content) >= 1

\* The row limit a search call must carry for a request.
RowLimitHolds(name, arguments, cs) ==
    /\ (name = "search_papers" /\ cs # <<>>) =>
         LET requested == Get(arguments.max_results, Val(Tool(name).max_results_default))
         IN  /\ cs[1].rows = <<IF requested < 50 THEN requested ELSE 50>>
             /\ Val(cs[1].rows) <= 50
             /\ arguments.max_results = <<1000>> => cs[1].rows = <<50>>
    /\ (name = "get_author_papers" /\ cs # <<>>) =>
         LET requested == Get(arguments.max_results, Val(Tool(name).max_results_default))
         IN  /\ cs[1].rows = <<IF requested < 100 THEN requested ELSE 100>>
             /\ Val(cs[1].rows) <= 100
             /\ arguments.max_results = <<1000>> => cs[1].rows = <<100>>

\* C5: the row limit sent to the backend is min(requested, ceiling), ceiling 50 for
\* search_papers and 100 for get_author_papers, a missing max_results being the
\* catalog default (10, 20); max_results = 1000 yields exactly 50 and 100.
C5_RowLimitClamped ==
    /\ \A t \in Tasks :
         pc[t] = "handling" => RowLimitHolds(req[t].name, req[t].arguments, calls[t])
    /\ Done => RowLimitHolds(response.name, response.arguments, response.calls)

\* C5 witness: a search_papers request for 1000 results was sent with rows = 50.
C5_Witness ==
    /\ response.name = "search_papers"
    /\ response.arguments.max_results = <<1000>>
    /\ response.calls # <<>>
    /\ response.calls[1].rows = <<50>>

\* The backend sort token the catalog documents for each user-facing sort value.
DocumentedToken(s) ==
    CASE s = "date" -> "date desc"
      [] s = "citation_count" -> "citation_count desc"
      [] s = "relevance" -> "score desc"

SortTokenHolds(name, arguments, cs) ==
    /\ (name = "search_papers" /\ cs # <<>>) =>
         LET s == Get(arguments.sort, Val(Tool(name).sort_default))
         IN  s \in {"date", "citation_count", "relevance"}
               => cs[1].sort = <<DocumentedToken(s)>>
    /\ (name = "get_author_papers" /\ cs # <<>>) =>
         LET s == Get(arguments.sort, Val(Tool(name).sort_default))
         IN  s = Val(Tool(name).sort_default) => cs[1].sort = <<DocumentedToken(s)>>

\* C6: search_papers maps date, citation_count and relevance to "date desc",
\* "citation_count desc" and "score desc"; a call that omits sort sends the token of
\* the catalog's documented default, on search_papers and on get_author_papers.
C6_SortTokens ==
    /\ \A t \in Tasks :
         pc[t] = "handling" => SortTokenHolds(req[t].name, req[t].arguments, calls[t])
    /\ Done => SortTokenHolds(response.name, response.arguments, response.calls)

\* C6 witness: a search_papers request without sort was sent with "date desc".
C6_Witness ==
    /\ response.name = "search_papers"
    /\ response.arguments.sort = <<>>
    /\ response.calls # <<>>
    /\ response.calls[1].sort = <<"date desc">>

\* C7: a sort value outside the operation's enumerated set does not fail the call
\* and is sent to the backend as "date desc", on search_papers and get_author_papers.
C7_UnknownSortFallsBackToDate ==
    (Done /\ response.name \in {"search_papers", "get_author_papers"}
          /\ response.calls # <<>>
          /\ Has(response.arguments.sort)
          /\ Val(response.arguments.sort) \notin Tool(response.name).sort_enum)
        => (response.calls[1].sort = <<"date desc">> /\ response.kind = "return")

AuthorMetricsHolds(name, cs, as, r) ==
    name = "get_author_metrics" =>
      /\ \A i \in 1..Len(cs) :
           cs[i].target = <<"/metrics">> =>
             /\ i = 2
             /\ cs[1].api = "ads.SearchQuery"
             /\ as[1].kind = "ok"
             /\ as[1].items # <<>>
             /\ cs[i].payload = as[1].items
      /\ (r.kind # "none" /\ as # <<>> /\ as[1].kind = "ok" /\ as[1].items = <<>>) =>
           /\ SingleText(r)
           /\ r.content[1].text.head = "No papers found for author: "
           /\ Len(cs) = 1

\* C8: in get_author_metrics a search that returns no bibcode ends the request with
\* the "no papers found" envelope and no metrics call; a metrics call is only issued
\* after a search of the same request returned at least one bibcode, with exactly
\* that bibcode list as payload.
C8_AuthorMetricsShortCircuit ==
    /\ \A t \in Tasks :
         pc[t] = "handling" =>
           AuthorMetricsHolds(req[t].name, calls[t], answers[t], NoResponse)
    /\ Done => AuthorMetricsHolds(response.name, response.calls, response.answers, response)

\* C8 witness: a get_author_metrics request whose search found nothing has ended
\* after that one call.
C8_Witness ==
    /\ response.name = "get_author_metrics"
    /\ Len(response.answers) = 1
    /\ response.answers[1].kind = "ok"
    /\ response.answers[1].items = <<>>
    /\ Len(response.calls) = 1

\* C9: export_bibtex over bibcodes that each either resolve or do not succeeds, and
\* its output holds one entry per requested bibcode, in request order: a citation
\* block when the bibcode resolved, a commented "not found" line naming it otherwise.
C9_ExportDegradesPerEntry ==
    (Done /\ response.name = "export_bibtex" /\ Has(response.arguments.bibcodes)
          /\ \A i \in 1..Len(response.answers) : response.answers[i].kind = "ok")
        => LET bibcodes == Val(response.arguments.bibcodes)
               text == response.content[1].text
           IN  /\ SingleText(response)
               /\ ~ErrorEnvelope(response)
               /\ Len(response.answers) = Len(bibcodes)
               /\ Len(text.entries) = Len(bibcodes)
               /\ \A i \in 1..Len(bibcodes) :
                    text.entries[i] =
                      IF response.answers[i].items # <<>>
                      THEN <<"@ARTICLE", bibcodes[i]>>
                      ELSE <<"% Paper not found: ", bibcodes[i]>>

\* C9 witness: an export of two bibcodes, the first resolving and the second not,
\* has returned.
C9_Witness ==
    /\ response.name = "export_bibtex"
    /\ response.kind = "return"
    /\ Len(response.answers) = 2
    /\ response.answers[1].kind = "ok" /\ response.answers[1].items # <<>>
    /\ response.answers[2].kind = "ok" /\ response.answers[2].items = <<>>

\* C10: at most one request is in handling at any time, and every outbound call in
\* flight belongs to it: a request runs to its end before the next one starts.
C10_OneRequestInHandling ==
    /\ Cardinality({t \in Tasks : pc[t] = "handling"}) <= 1
    /\ \A t \in Tasks : pc[t] = "handling" => loop = t
    /\ (loop = 0) = (\A t \in Tasks : pc[t] # "handling")

\* C10 witness: one request has a call in flight while another request waits.
C10_Witness ==
    \E t, u \in Tasks : t # u /\ InFlight(t) /\ pc[u] = "pending"

\* The description str(e) of the failure of an outbound call that failed: the
\* exception the call raised, or the HTTPError of a non-success status.
CallFailed(a) == a.kind \in {"raise", "status_error"}
FailureDescription(a) == IF a.kind = "raise" THEN a.exc ELSE "HTTPError"

NoRetryHolds(cs, as, r) ==
    /\ \A i \in 1..Len(as) :
         CallFailed(as[i]) =>
           /\ i = Len(cs)
           /\ r.kind # "none"
    /\ (r.kind # "none" /\ as # <<>> /\ CallFailed(as[Len(as)])) =>
           /\ ErrorEnvelope(r)
           /\ r.content[1].text.arg = FailureDescription(as[Len(as)])
           /\ Len(cs) = Len(as)

\* C11: when an outbound call fails (network error, non-success status, exceeded
\* wait ceiling) the request ends in an error-text envelope that carries the
\* failure's description; the failed call is the last call of the request: it is not
\* issued again and no later call of a composition follows it.
C11_FailedCallEndsRequest ==
    /\ \A t \in Tasks : pc[t] = "handling" => NoRetryHolds(calls[t], answers[t], NoResponse)
    /\ Done => NoRetryHolds(response.calls, response.answers, response)

\* C11 witness: a get_author_metrics request whose search failed has ended in an
\* error text without a metrics call.
C11_Witness ==
    /\ response.name = "get_author_metrics"
    /\ Len(response.answers) = 1
    /\ CallFailed(response.answers[1])
    /\ Len(response.calls) = 1
    /\ ErrorEnvelope(response)

NothingFoundHeads ==
    {"No papers found for query: ", "Paper not found: ", "No papers found for author: ",
     "No libraries found. Create one with the create_library tool!",
     "No papers in library "}

\* A completed request whose calls all succeeded and whose last listing came back
\* empty: a search without records, an unknown bibcode, an author without papers,
\* no collections, an empty collection, or collection bibcodes that resolve to no
\* paper record.
MatchedNothing(r) ==
    /\ r.kind # "none"
    /\ r.name \in {"search_papers", "get_paper_details", "get_author_papers",
                   "get_author_metrics", "list_libraries", "get_library_papers"}
    /\ r.answers # <<>>
    /\ \A i \in 1..Len(r.answers) : r.answers[i].kind = "ok" /\ r.answers[i].body = "ok"
    /\ r.answers[Len(r.answers)].items = <<>>
    /\ r.name = "get_author_metrics" => Len(r.answers) = 1

\* C12: a well-formed call that matches nothing yields a successful envelope whose
\* text is an explanatory "nothing found" message: not an error text, and not a
\* listing header without entries.
C12_EmptyResultIsExplained ==
    MatchedNothing(response)
        => /\ SingleText(response)
           /\ ~ErrorEnvelope(response)
           /\ response.content[1].text.head \in NothingFoundHeads

\* Every call of the sequence was issued with the 30-second wait ceiling.
WaitCeilingHolds(cs) == \A i \in 1..Len(cs) : cs[i].timeout = <<30>>

\* C13: every outbound call that reaches the external service, a search query as
\* well as a metrics or collection request, is issued with the 30-unit wait ceiling
\* (so that a backend that never answers ends in a transport-failure text and the
\* dispatcher returns to idle).
C13_EveryCallHasWaitCeiling ==
    /\ \A t \in Tasks : pc[t] = "handling" => WaitCeilingHolds(calls[t])
    /\ Done => WaitCeilingHolds(response.calls)

\* An empty or whitespace-only bibcode, and a list without such entries.
IsBlank(b) == b \in {"", " "}
NotBlank(b) == ~IsBlank(b)
Stripped(bibcodes) == SelectSeq(bibcodes, NotBlank)

BibcodesStrippedHolds(name, arguments, cs) ==
    /\ (name \in {"get_paper_metrics", "add_to_library"} /\ cs # <<>>) =>
         cs[1].payload = Stripped(Val(arguments.bibcodes))
    /\ (name = "export_bibtex" /\ cs # <<>>) =>
         LET kept == Stripped(Val(arguments.bibcodes))
         IN  /\ Len(cs) <= Len(kept)
             /\ \A i \in 1..Len(cs) : cs[i].query = <<"bibcode", kept[i]>>

\* C14: the bibcode lists of get_paper_metrics, export_bibtex and add_to_library
\* reach the backend without their empty or whitespace-only entries, the other
\* entries unchanged and in order; no payload or lookup holds a blank bibcode.
C14_BlankBibcodesStripped ==
    /\ \A t \in Tasks :
         pc[t] = "handling" => BibcodesStrippedHolds(req[t].name, req[t].arguments, calls[t])
    /\ Done => BibcodesStrippedHolds(response.name, response.arguments, response.calls)

\* The tokens of "bibcode:(b1 OR b2 OR ...)" over exactly the bibcodes bs, in order.
IsOrCombination(query, bs) ==
    /\ Len(query) = 2 * Len(bs) + 1
    /\ query[1] = "q" /\ query[2] = "bibcode:"
    /\ \A i \in 1..Len(bs) : query[2 * i + 1] = bs[i]
    /\ \A i \in 1..(Len(bs) - 1) : query[2 * i + 2] = "OR"

LibraryPapersHolds(name, arguments, cs, as, r) ==
    name = "get_library_papers" =>
      /\ Len(cs) <= 2
      /\ cs # <<>> =>
           /\ cs[1].api = "requests.get"
           /\ cs[1].target = <<"/biblib/libraries/", Val(arguments.library_id)>>
      /\ Len(cs) = 2 =>
           /\ as[1].kind = "ok" /\ as[1].body = "ok"
           /\ as[1].items # <<>>
           /\ cs[2].api = "ads.SearchQuery"
           /\ IsOrCombination(cs[2].query, as[1].items)
           /\ cs[2].rows = <<Len(as[1].items)>>
      /\ (r.kind # "none" /\ as # <<>> /\ (Failed(as[1]) \/ as[1].items = <<>>)) =>
           Len(cs) = 1

\* C15: get_library_papers first fetches the collection's bibcode list; it issues
\* the paper search only after that fetch succeeded with a non-empty list, over the
\* OR-combination of exactly the fetched bibcodes and with rows equal to their
\* number; after a failed or empty fetch it issues no search.
C15_LibraryPapersCallOrder ==
    /\ \A t \in Tasks :
         pc[t] = "handling" =>
           LibraryPapersHolds(req[t].name, req[t].arguments, calls[t], answers[t], NoResponse)
    /\ Done => LibraryPapersHolds(response.name, response.arguments, response.calls,
                                  response.answers, response)

\* C15 witness: a get_library_papers request has its search in flight for the two
\* bibcodes the collection fetch returned.
C15_Witness ==
    \E t \in Tasks :
        /\ InFlight(t)
        /\ req[t].name = "get_library_papers"
        /\ Len(calls[t]) = 2
        /\ Len(answers[t][1].items) = 2
        /\ calls[t][2].rows = <<2>>

\* The ten operation names of the protocol surface.
TenNames ==
    {"search_papers", "get_paper_details", "get_author_papers", "export_bibtex",
     "get_paper_metrics", "get_author_metrics", "list_libraries", "get_library_papers",
     "create_library", "add_to_library"}

\* call_tool found no branch for the name.
Unrouted(r) == r.kind = "raise" /\ r.exc = "ValueError"

\* C16: whatever introspection and tool calls came before, list_tools returns the
\* same catalog of ten uniquely named operations; call_tool routes every name of
\* that catalog to its handler and routes no name that is absent from it.
C16_CatalogAndRouterAgree ==
    /\ listed # <<>> =>
         /\ Len(listed) = 10
         /\ \A i, j \in 1..Len(listed) : listed[i].name = listed[j].name => i = j
         /\ {listed[i].name : i \in 1..Len(listed)} = TenNames
    /\ \A t \in Tasks : pc[t] = "handling" => req[t].name \in TenNames
    /\ Done => (response.name \in TenNames <=> ~Unrouted(response))

\* C16 witness: after an introspection call, an add_to_library request (the last
\* branch of the router) was handled and returned.
C16_Witness ==
    /\ listed # <<>>
    /\ response.name = "add_to_library"
    /\ response.kind = "return"

====
